---- MODULE Spec2Model ----
(***************************************************************************)
(* Lifecycle facade of virttest.libvirt_xml.network_xml.NetworkXML: the    *)
(* virtual properties defined / active / autostart / persistent, the       *)
(* methods create / define / undefine / start, orbital_nuclear_strike and  *)
(* sync, run against a model of the external management tool (virsh).      *)
(*                                                                         *)
(* Every method is an operator from a call context to a call context.  A   *)
(* context carries the tool's state for the network, the outcomes the      *)
(* environment allows for the successive tool commands, the log of the     *)
(* commands issued so far, the exception raised (if any) and the value     *)
(* returned.                                                               *)
(*                                                                         *)
(* The second half models the documents: the IPXML constructor, the        *)
(* marshal-in and marshal-out converters of the list-valued slots, the     *)
(* list get built on them, and add_ip.                                     *)
(***************************************************************************)
EXTENDS Integers, Sequences, FiniteSets, TLC

VARIABLES tool, last, doc

vars == <<tool, last, doc>>

\* Number of successive tool commands whose outcome the environment picks
\* in a call of sync(), which issues at most six (destroy, undefine, define,
\* start or destroy, undefine, autostart).
MaxCmds == 6

\* The same for a call of any other method; none issues more than two.
MaxCmdsProp == 2

\* Number of children under one xpath of a document as it is loaded.
MaxKids == 2

\* The name of the network in the object's document (<network><name>..).
Name == "default"

(***************************************************************************)
(* The external tool.                                                      *)
(***************************************************************************)

\* The tool's state for the one network: it is listed iff it is persistent
\* or active; only a persistent network carries the autostart flag.
ToolStates ==
    {t \in [persistent : BOOLEAN, active : BOOLEAN, autostart : BOOLEAN] :
        t.autostart => t.persistent}

Known(t) == t.persistent \/ t.active

\* net_state_dict(): name -> {active, autostart, persistent} for every
\* listed network.
net_state_dict(t) ==
    [n \in (IF Known(t) THEN {Name} ELSE {}) |->
        [active |-> t.active, autostart |-> t.autostart,
         persistent |-> t.persistent]]

\* net_state_dict(only_names=True): the listed names.
net_state_names(t) == DOMAIN net_state_dict(t)

NoError == [kind |-> "none", msg |-> "", detail |-> ""]

LibvirtXMLError(msg, detail) ==
    [kind |-> "LibvirtXMLError", msg |-> msg, detail |-> detail]

KeyError == [kind |-> "KeyError", msg |-> Name, detail |-> ""]

\* The result object of a tool command.
CmdResult(cmd, ok) ==
    [exit_status |-> IF ok THEN 0 ELSE 1,
     stderr      |-> IF ok THEN "" ELSE "error: " \o cmd,
     stderr_text |-> IF ok THEN "" ELSE "error: " \o cmd]

NoResult == CmdResult("", TRUE)

\* A call context at the start of a method call.
NewCtx(t, env) ==
    [tool |-> t, env |-> env, log |-> <<>>, raised |-> NoError,
     ret |-> "None", res |-> NoResult]

Raised(c) == c.raised.kind # "none"

Raise(c, err) == [c EXCEPT !.raised = err]

Return(c, v) == [c EXCEPT !.ret = v]

PyBool(b) == IF b THEN "True" ELSE "False"

\* One tool command: it succeeds iff the tool's precondition holds and the
\* environment lets it; a failed command changes nothing.  The command, the
\* tool state it was issued in and its outcome are appended to the log and
\* the result object is left in c.res; the tool never raises.
RunCmd(c, cmd, pre, post) ==
    LET k  == Len(c.log) + 1
        ok == pre /\ (k \in DOMAIN c.env => c.env[k])
    IN  [c EXCEPT !.tool = IF ok THEN post ELSE c.tool,
                  !.log  = Append(c.log, [cmd |-> cmd, ok |-> ok, at |-> c.tool]),
                  !.res  = CmdResult(cmd, ok)]

net_define(c) ==
    RunCmd(c, "define", TRUE, [c.tool EXCEPT !.persistent = TRUE])

net_undefine(c) ==
    RunCmd(c, "undefine", c.tool.persistent,
           [c.tool EXCEPT !.persistent = FALSE, !.autostart = FALSE])

net_destroy(c) ==
    RunCmd(c, "destroy", c.tool.active, [c.tool EXCEPT !.active = FALSE])

net_start(c) ==
    RunCmd(c, "start", c.tool.persistent /\ ~c.tool.active,
           [c.tool EXCEPT !.active = TRUE])

net_create(c) ==
    RunCmd(c, "create", ~c.tool.active, [c.tool EXCEPT !.active = TRUE])

net_autostart(c, extra) ==
    RunCmd(c, IF extra = "--disable" THEN "autostart-disable"
                                     ELSE "autostart",
           c.tool.persistent,
           [c.tool EXCEPT !.autostart = (extra # "--disable")])

(***************************************************************************)
(* NetworkXMLBase: the property accessors.                                 *)
(***************************************************************************)

get_defined(c) == Name \in net_state_names(c.tool)

check_undefined(c, errmsg) ==
    IF ~get_defined(c) THEN Raise(c, LibvirtXMLError(errmsg, "")) ELSE c

\* Variant: the undefine command is issued without the existence check.
del_defined_unchecked(c) == net_undefine(c)

del_defined(c) ==
    LET c1 == check_undefined(c, "Cannot undefine non-existant network")
    IN  IF Raised(c1) THEN c1 ELSE net_undefine(c1)

set_defined(c, value) ==
    IF value THEN net_define(c) ELSE del_defined(c)

get_active(c) ==
    LET state_dict == net_state_dict(c.tool)
    IN  IF Name \in DOMAIN state_dict THEN state_dict[Name].active
                                      ELSE FALSE

del_active(c) ==
    IF get_active(c) THEN net_destroy(c) ELSE c

\* Variant: start and stop are issued without looking at the current state.
set_active_always(c, value) ==
    LET c1 == check_undefined(c, "Cannot activate undefined network")
    IN  IF Raised(c1) THEN c1
        ELSE IF value THEN net_start(c1) ELSE net_destroy(c1)

\* Variant: the existence check is missing.
set_active_unchecked(c, value) ==
    IF value
    THEN IF ~get_active(c) THEN net_start(c) ELSE c
    ELSE IF get_active(c) THEN del_active(c) ELSE c

set_active(c, value) ==
    LET c1 == check_undefined(c, "Cannot activate undefined network")
    IN  IF Raised(c1) THEN c1
        ELSE IF value
             THEN IF ~get_active(c1) THEN net_start(c1) ELSE c1
             ELSE IF get_active(c1) THEN del_active(c1) ELSE c1

\* The value read by get_autostart once the existence check has passed.
autostart_flag(c) == net_state_dict(c.tool)[Name].autostart

get_autostart(c) ==
    LET c1 == check_undefined(c,
                  "Cannot determine autostart for undefined network")
    IN  IF Raised(c1) THEN c1 ELSE Return(c1, PyBool(autostart_flag(c1)))

\* Variant: autostart is disabled without the existence check.
del_autostart_unchecked(c) == net_autostart(c, "--disable")

del_autostart(c) ==
    IF ~get_defined(c)
    THEN Raise(c, LibvirtXMLError("Can't autostart nonexistant network", ""))
    ELSE net_autostart(c, "--disable")

\* Variant: the tests of the current flag are inverted.
set_autostart_inverted(c, value) ==
    LET c1 == check_undefined(c, "Cannot set autostart for undefined network")
    IN  IF Raised(c1) THEN c1
        ELSE IF value
             THEN IF autostart_flag(c1) THEN net_autostart(c1, "") ELSE c1
             ELSE IF ~autostart_flag(c1) THEN del_autostart(c1) ELSE c1

set_autostart(c, value) ==
    LET c1 == check_undefined(c, "Cannot set autostart for undefined network")
    IN  IF Raised(c1) THEN c1
        ELSE IF value
             THEN IF ~autostart_flag(c1) THEN net_autostart(c1, "") ELSE c1
             ELSE IF autostart_flag(c1) THEN del_autostart(c1) ELSE c1

\* Variant: persistent read as "is the name listed".
get_persistent_as_defined(c) == Return(c, PyBool(get_defined(c)))

get_persistent(c) ==
    LET state_dict == net_state_dict(c.tool)
    IN  IF Name \in DOMAIN state_dict
        THEN Return(c, PyBool(state_dict[Name].persistent))
        ELSE Raise(c, KeyError)

set_persistent(c, value) == set_defined(c, value)

del_persistent(c) == del_defined(c)

(***************************************************************************)
(* NetworkXML: the lifecycle methods.                                      *)
(***************************************************************************)

\* Variant: the exit status of the create command is not looked at.
create_unchecked(c) == net_create(c)

create(c) ==
    LET c1 == net_create(c)
    IN  IF c1.res.exit_status # 0
        THEN Raise(c1, LibvirtXMLError("Failed to create transient network",
                                       c1.res.stderr))
        ELSE c1

\* An except clause for LibvirtXMLError: the error is logged and dropped,
\* any other exception keeps propagating.
CatchLibvirtXMLError(c) ==
    IF c.raised.kind = "LibvirtXMLError" THEN Raise(c, NoError) ELSE c

\* Variant: the second assignment is not wrapped in try/except.
orbital_nuclear_strike_uncaught(c) ==
    LET c1 == CatchLibvirtXMLError(set_active(c, FALSE))
    IN  IF Raised(c1) THEN c1 ELSE set_defined(c1, FALSE)

\* Variant: the network is not stopped before it is undefined.
orbital_nuclear_strike_no_stop(c) ==
    CatchLibvirtXMLError(set_defined(c, FALSE))

orbital_nuclear_strike(c) ==
    LET c1 == CatchLibvirtXMLError(set_active(c, FALSE))
    IN  IF Raised(c1) THEN c1
        ELSE CatchLibvirtXMLError(set_defined(c1, FALSE))

undefine(c) ==
    LET c1 == net_destroy(c)
        c2 == net_undefine(c1)
    IN  IF c2.res.exit_status # 0
        THEN Raise(c2, LibvirtXMLError("Failed to undefine network",
                                       c2.res.stderr_text))
        ELSE c2

define(c) ==
    LET c1 == net_define(c)
    IN  IF c1.res.exit_status # 0
        THEN Raise(c1, LibvirtXMLError("Failed to define network",
                                       c1.res.stderr_text))
        ELSE c1

start(c) ==
    LET c1 == net_start(c)
    IN  IF c1.res.exit_status # 0
        THEN Raise(c1, LibvirtXMLError("Failed to start network",
                                       c1.res.stderr_text))
        ELSE c1

\* Variant: the definition is removed before the network is stopped.
sync_teardown_undefine_first(c) ==
    IF get_defined(c)
    THEN LET c1 == IF get_defined(c) THEN del_defined(c) ELSE c
         IN  IF Raised(c1) THEN c1
             ELSE IF get_active(c1) THEN del_active(c1) ELSE c1
    ELSE c

\* Variant: defined is not read again after the stop.
sync_teardown_no_recheck(c) ==
    IF get_defined(c)
    THEN LET c1 == IF get_active(c) THEN del_active(c) ELSE c
         IN  IF Raised(c1) THEN c1 ELSE del_defined(c1)
    ELSE c

\* The first block of sync(): tear down what the tool knows of the network.
sync_teardown(c) ==
    IF get_defined(c)
    THEN LET c1 == IF get_active(c) THEN del_active(c) ELSE c
         IN  IF Raised(c1) THEN c1
             ELSE IF get_defined(c1) THEN del_defined(c1) ELSE c1
    ELSE c

\* Variant: the test of state["persistent"] is inverted.
sync_apply_inverted(c, st) ==
    LET c1 == set_active(c, st.active)
        c2 == IF Raised(c1) THEN c1
              ELSE IF st.persistent THEN del_persistent(c1) ELSE c1
    IN  IF Raised(c2) THEN c2
        ELSE IF get_defined(c2) THEN set_autostart(c2, st.autostart) ELSE c2

\* The branch of sync() taken when a state mapping is supplied.
sync_apply(c, st) ==
    LET c1 == set_active(c, st.active)
        c2 == IF Raised(c1) THEN c1
              ELSE IF ~st.persistent THEN del_persistent(c1) ELSE c1
    IN  IF Raised(c2) THEN c2
        ELSE IF get_defined(c2) THEN set_autostart(c2, st.autostart) ELSE c2

\* Variant: autostart is not enabled.
sync_default_no_autostart(c) == set_active(c, TRUE)

\* The branch of sync() taken when no state is supplied.
sync_default(c) ==
    LET c1 == set_active(c, TRUE)
    IN  IF Raised(c1) THEN c1 ELSE set_autostart(c1, TRUE)

\* sync(state): state is <<>> for None and <<mapping>> otherwise.
sync(c, state) ==
    LET c1 == sync_teardown(c)
        c2 == IF Raised(c1) THEN c1 ELSE set_defined(c1, TRUE)
    IN  IF Raised(c2) THEN c2
        ELSE IF state # <<>> THEN sync_apply(c2, state[1])
                             ELSE sync_default(c2)

(***************************************************************************)
(* Items, mappings and the marshal-in converters.                          *)
(***************************************************************************)

\* A Python dict with string keys and values: a function on its keys.
EmptyMap == [k \in {} |-> ""]

Overlay(base, m) ==
    [k \in DOMAIN base \cup DOMAIN m |->
        IF k \in DOMAIN m THEN m[k] ELSE base[k]]

Remove(m, key) == [k \in DOMAIN m \ {key} |-> m[k]]

\* The value a converter returns (or the exception it raises), with the
\* caller's mapping as the call left it.  payload.shared tells whether the
\* payload is the very object the caller passed.
Pair(tag, type, attrs, shared, item) ==
    [raised |-> NoError, tag |-> tag,
     payload |-> [type |-> type, attrs |-> attrs, shared |-> shared],
     item |-> item.attrs]

NoPair(err, item) ==
    [raised |-> err, tag |-> "",
     payload |-> [type |-> "None", attrs |-> EmptyMap, shared |-> FALSE],
     item |-> item.attrs]

\* setup_attrs(**item): every key of the mapping is set on the object.
setup_attrs(attrs, item) == Overlay(attrs, item.attrs)

\* IPXML(address, netmask, ipv6): the attributes of the <ip> root.
IPXML_init(address, netmask, ipv6) ==
    IF ipv6 THEN [k \in {"address"} |-> address]
    ELSE [k \in {"address", "netmask"} |->
             IF k = "address" THEN address ELSE netmask]

DefaultAddress == "192.168.122.1"

DefaultNetmask == "255.255.255.0"

marshal_from_hosts(item) ==
    IF item.type = "DhcpHostXML"
    THEN Pair("host", "DhcpHostXML", item.attrs, TRUE, item)
    ELSE IF item.type = "dict"
    THEN Pair("host", "DhcpHostXML", setup_attrs(EmptyMap, item), FALSE, item)
    ELSE NoPair(LibvirtXMLError("Expected a list of ip dhcp host instances",
                                item.type), item)

marshal_from_hostname(item) ==
    IF item.type = "HostnameXML"
    THEN Pair("hostname", "HostnameXML", item.attrs, TRUE, item)
    ELSE IF item.type \in {"dict", "str"}
    THEN IF item.type = "dict"
         THEN Pair("hostname", "HostnameXML", setup_attrs(EmptyMap, item),
                   FALSE, item)
         ELSE Pair("hostname", "HostnameXML",
                   [k \in {"hostname"} |-> "str"], FALSE, item)
    ELSE NoPair(LibvirtXMLError("Expected a list of HostnameXML instances",
                                item.type), item)

\* Variant: the type of the item is not tested.
marshal_from_forwarder_unchecked(item) ==
    Pair("forwarder", "dict", item.attrs, FALSE, item)

marshal_from_forwarder(item) ==
    IF item.type # "dict"
    THEN NoPair(LibvirtXMLError("Expected a dictionary of host attributes",
                                item.type), item)
    ELSE Pair("forwarder", "dict", item.attrs, FALSE, item)

marshal_from_address(item) ==
    IF item.type = "Address"
    THEN Pair("address", "Address", item.attrs, TRUE, item)
    ELSE IF item.type = "dict"
    THEN LET popped == IF "type_name" \in DOMAIN item.attrs
                       THEN [item EXCEPT !.attrs = Remove(@, "type_name")]
                       ELSE item
         IN  Pair("address", "Address", setup_attrs(EmptyMap, popped),
                  FALSE, popped)
    ELSE NoPair(LibvirtXMLError("Expected a list of address instances",
                                item.type), item)

\* Variant: the netmask the constructor set is kept for ipv6.
marshal_from_ips_keep_netmask(item) ==
    IF item.type = "IPXML"
    THEN Pair("ip", "IPXML", item.attrs, TRUE, item)
    ELSE IF item.type = "dict"
    THEN Pair("ip", "IPXML",
              setup_attrs(IPXML_init(DefaultAddress, DefaultNetmask, FALSE),
                          item),
              FALSE, item)
    ELSE NoPair(LibvirtXMLError("Expected a list of IPXML instances",
                                item.type), item)

marshal_from_ips(item) ==
    IF item.type = "IPXML"
    THEN Pair("ip", "IPXML", item.attrs, TRUE, item)
    ELSE IF item.type = "dict"
    THEN LET ip == setup_attrs(IPXML_init(DefaultAddress, DefaultNetmask,
                                          FALSE), item)
             family == IF "family" \in DOMAIN item.attrs
                       THEN item.attrs["family"] ELSE "None"
         IN  IF family = "ipv6"
             THEN IF "netmask" \in DOMAIN ip
                  THEN Pair("ip", "IPXML", Remove(ip, "netmask"), FALSE, item)
                  ELSE NoPair(LibvirtXMLError("netmask is not set", ""), item)
             ELSE Pair("ip", "IPXML", ip, FALSE, item)
    ELSE NoPair(LibvirtXMLError("Expected a list of IPXML instances",
                                item.type), item)

marshal_from_portgroups(item) ==
    IF item.type = "PortgroupXML"
    THEN Pair("portgroup", "PortgroupXML", item.attrs, TRUE, item)
    ELSE IF item.type = "dict"
    THEN Pair("portgroup", "PortgroupXML", setup_attrs(EmptyMap, item),
              FALSE, item)
    ELSE NoPair(LibvirtXMLError("Expected a list of PortgroupXML instances",
                                item.type), item)

marshal_from_forward_iface(item) ==
    IF item.type # "dict"
    THEN NoPair(LibvirtXMLError(
                    "Expected a dictionary of interface attributes",
                    item.type), item)
    ELSE Pair("interface", "dict", item.attrs, FALSE, item)

marshal_from_route(item) ==
    IF item.type # "dict"
    THEN NoPair(LibvirtXMLError(
                    "Expected a dictionary of interface attributes",
                    item.type), item)
    ELSE Pair("route", "dict", item.attrs, FALSE, item)

\* The keys a supplied mapping may have and the values of each.
MapKeys == {"address", "netmask", "family", "type_name"}

MapValues(key) ==
    CASE key = "address"   -> {"10.0.0.1"}
      [] key = "netmask"   -> {"255.0.0.0"}
      [] key = "family"    -> {"ipv4", "ipv6"}
      [] key = "type_name" -> {"pci"}

Mappings ==
    UNION {{m \in [ks -> UNION {MapValues(k) : k \in MapKeys}] :
               \A k \in ks : m[k] \in MapValues(k)} : ks \in SUBSET MapKeys}

\* The items handed to a converter: mappings, a plain string, an integer,
\* and instances of the classes of this module.
Items ==
    {[type |-> "dict", attrs |-> m] : m \in Mappings}
        \cup {[type |-> t, attrs |-> EmptyMap] :
                 t \in {"str", "int", "IPXML", "PortgroupXML", "DhcpHostXML",
                        "HostnameXML", "Address"}}

\* The list-valued slots and the converter each is bound to.
ListSlots ==
    {"hosts", "hostnames", "forwarders", "ips", "forward_interface",
     "vf_list", "portgroups", "routes"}

MarshalFrom(slot, item) ==
    CASE slot = "hosts"             -> marshal_from_hosts(item)
      [] slot = "hostnames"         -> marshal_from_hostname(item)
      [] slot = "forwarders"        -> marshal_from_forwarder(item)
      [] slot = "ips"               -> marshal_from_ips(item)
      [] slot = "forward_interface" -> marshal_from_forward_iface(item)
      [] slot = "vf_list"           -> marshal_from_address(item)
      [] slot = "portgroups"        -> marshal_from_portgroups(item)
      [] slot = "routes"            -> marshal_from_route(item)

(***************************************************************************)
(* The marshal-out converters and the list get.                            *)
(***************************************************************************)

Skip == [skip |-> TRUE, value |-> [type |-> "None", attrs |-> EmptyMap]]

Converted(type, elem) ==
    [skip |-> FALSE, value |-> [type |-> type, attrs |-> elem.attrs]]

marshal_to_hosts(tag, elem) ==
    IF tag # "host" THEN Skip ELSE Converted("DhcpHostXML", elem)

marshal_to_hostname(tag, elem) ==
    IF tag # "hostname" THEN Skip ELSE Converted("HostnameXML", elem)

marshal_to_forwarder(tag, elem) ==
    IF tag # "forwarder" THEN Skip ELSE Converted("dict", elem)

marshal_to_address(tag, elem) ==
    IF tag # "address" THEN Skip ELSE Converted("Address", elem)

marshal_to_ips(tag, elem) ==
    IF tag # "ip" THEN Skip ELSE Converted("IPXML", elem)

marshal_to_portgroups(tag, elem) ==
    IF tag # "portgroup" THEN Skip ELSE Converted("PortgroupXML", elem)

marshal_to_forward_iface(tag, elem) ==
    IF tag # "interface" THEN Skip ELSE Converted("dict", elem)

\* Variant: the converter tests for the plural of its tag.
marshal_to_route_plural(tag, elem) ==
    IF tag # "routes" THEN Skip ELSE Converted("dict", elem)

marshal_to_route(tag, elem) ==
    IF tag # "route" THEN Skip ELSE Converted("dict", elem)

MarshalTo(slot, tag, elem) ==
    CASE slot = "hosts"             -> marshal_to_hosts(tag, elem)
      [] slot = "hostnames"         -> marshal_to_hostname(tag, elem)
      [] slot = "forwarders"        -> marshal_to_forwarder(tag, elem)
      [] slot = "ips"               -> marshal_to_ips(tag, elem)
      [] slot = "forward_interface" -> marshal_to_forward_iface(tag, elem)
      [] slot = "vf_list"           -> marshal_to_address(tag, elem)
      [] slot = "portgroups"        -> marshal_to_portgroups(tag, elem)
      [] slot = "routes"            -> marshal_to_route(tag, elem)

\* The class that declares a list slot and the xpath the slot scans.
SlotClass(slot) ==
    CASE slot = "hosts"      -> "IPXML"
      [] slot = "hostnames"  -> "HostXML"
      [] slot = "forwarders" -> "DNSXML"
      [] OTHER               -> "NetworkXML"

SlotXPath(slot) ==
    CASE slot = "hosts"                            -> "/dhcp"
      [] slot \in {"forward_interface", "vf_list"} -> "/forward"
      [] OTHER                                     -> "/"

XPaths == {"/", "/forward", "/dhcp"}

\* A document: the element objects (an element is known by its position
\* in elems), the children under each xpath as references to them, the
\* class of the object that owns the document, and the root element of the
\* IPXML object v the caller holds (0 when there is none).
\* added tells whether add_ip(v) has returned normally.
EmptyDoc ==
    [cls |-> "NetworkXML", elems |-> <<>>,
     kids |-> [x \in XPaths |-> <<>>], v |-> 0, added |-> FALSE]

\* The children under an xpath, dereferenced, in document order.
Children(d, xpath) ==
    [i \in 1..Len(d.kids[xpath]) |-> d.elems[d.kids[xpath][i]]]

\* The get of a list slot: every child under the slot's xpath is handed to
\* the slot's marshal-out converter, in document order, and the children
\* it does not skip are collected.
RECURSIVE ScanChildren(_, _)
ScanChildren(slot, children) ==
    IF children = <<>> THEN <<>>
    ELSE LET r == MarshalTo(slot, Head(children).tag, Head(children))
         IN  IF r.skip THEN ScanChildren(slot, Tail(children))
             ELSE <<r.value>> \o ScanChildren(slot, Tail(children))

GetList(d, slot) == ScanChildren(slot, Children(d, SlotXPath(slot)))

\* Variant: a copy of the root element is appended.
add_ip_copy(d, value) ==
    IF value.type # "IPXML"
    THEN [doc |-> d,
          raised |-> LibvirtXMLError("value must be a IPXML or subclass", "")]
    ELSE [doc |-> [d EXCEPT !.elems = Append(@, d.elems[value.root]),
                            !.kids["/"] = Append(@, Len(d.elems) + 1)],
          raised |-> NoError]

\* add_ip(value): the root element of value is appended to the children of
\* the network's root; the element object itself, not a copy.
add_ip(d, value) ==
    IF value.type # "IPXML"
    THEN [doc |-> d,
          raised |-> LibvirtXMLError("value must be a IPXML or subclass", "")]
    ELSE [doc |-> [d EXCEPT !.kids["/"] = Append(@, value.root)],
          raised |-> NoError]

\* v.address = address: the attribute is set on v's root element.
set_address(d, address) ==
    [d EXCEPT !.elems[d.v].attrs = Overlay(@, [k \in {"address"} |-> address])]

(***************************************************************************)
(* The state machine: one action per method call on the object.           *)
(***************************************************************************)

Envs(n) == [1..n -> BOOLEAN]

StateMappings == [active : BOOLEAN, persistent : BOOLEAN, autostart : BOOLEAN]

\* The call returns (or raises): the tool is left as the call left it and
\* the call is recorded with the tool state it started from and the
\* outcomes the environment allowed for the commands it issued.
Call(op, arg, c) ==
    /\ tool' = c.tool
    /\ doc' = doc
    /\ last' = [op |-> op, arg |-> arg, pre |-> tool,
                env |-> SubSeq(c.env, 1, Len(c.log)),
                log |-> c.log, raised |-> c.raised, ret |-> c.ret]

Init ==
    /\ tool \in ToolStates
    /\ doc = EmptyDoc
    /\ last = [op |-> "init", arg |-> <<>>, pre |-> tool, env |-> <<>>,
               log |-> <<>>, raised |-> NoError, ret |-> "None"]

GetDefined ==
    \E env \in Envs(MaxCmdsProp) :
        LET c == NewCtx(tool, env)
        IN  Call("get_defined", <<>>, Return(c, PyBool(get_defined(c))))

SetDefined ==
    \E env \in Envs(MaxCmdsProp), v \in BOOLEAN :
        Call("set_defined", <<v>>, set_defined(NewCtx(tool, env), v))

DelDefined ==
    \E env \in Envs(MaxCmdsProp) : Call("del_defined", <<>>, del_defined(NewCtx(tool, env)))

GetActive ==
    \E env \in Envs(MaxCmdsProp) :
        LET c == NewCtx(tool, env)
        IN  Call("get_active", <<>>, Return(c, PyBool(get_active(c))))

SetActive ==
    \E env \in Envs(MaxCmdsProp), v \in BOOLEAN :
        Call("set_active", <<v>>, set_active(NewCtx(tool, env), v))

DelActive ==
    \E env \in Envs(MaxCmdsProp) : Call("del_active", <<>>, del_active(NewCtx(tool, env)))

GetAutostart ==
    \E env \in Envs(MaxCmdsProp) :
        Call("get_autostart", <<>>, get_autostart(NewCtx(tool, env)))

SetAutostart ==
    \E env \in Envs(MaxCmdsProp), v \in BOOLEAN :
        Call("set_autostart", <<v>>, set_autostart(NewCtx(tool, env), v))

DelAutostart ==
    \E env \in Envs(MaxCmdsProp) :
        Call("del_autostart", <<>>, del_autostart(NewCtx(tool, env)))

GetPersistent ==
    \E env \in Envs(MaxCmdsProp) :
        Call("get_persistent", <<>>, get_persistent(NewCtx(tool, env)))

SetPersistent ==
    \E env \in Envs(MaxCmdsProp), v \in BOOLEAN :
        Call("set_persistent", <<v>>, set_persistent(NewCtx(tool, env), v))

DelPersistent ==
    \E env \in Envs(MaxCmdsProp) :
        Call("del_persistent", <<>>, del_persistent(NewCtx(tool, env)))

Create ==
    \E env \in Envs(MaxCmdsProp) : Call("create", <<>>, create(NewCtx(tool, env)))

OrbitalNuclearStrike ==
    \E env \in Envs(MaxCmdsProp) :
        Call("orbital_nuclear_strike", <<>>,
             orbital_nuclear_strike(NewCtx(tool, env)))

Undefine ==
    \E env \in Envs(MaxCmdsProp) : Call("undefine", <<>>, undefine(NewCtx(tool, env)))

Define ==
    \E env \in Envs(MaxCmdsProp) : Call("define", <<>>, define(NewCtx(tool, env)))

Start ==
    \E env \in Envs(MaxCmdsProp) : Call("start", <<>>, start(NewCtx(tool, env)))

Sync ==
    \E env \in Envs(MaxCmds), state \in {<<>>} \cup {<<m>> : m \in StateMappings} :
        Call("sync", state, sync(NewCtx(tool, env), state))

Next ==
    \/ GetDefined
    \/ SetDefined
    \/ DelDefined
    \/ GetActive
    \/ SetActive
    \/ DelActive
    \/ GetAutostart
    \/ SetAutostart
    \/ DelAutostart
    \/ GetPersistent
    \/ SetPersistent
    \/ DelPersistent
    \/ Create
    \/ OrbitalNuclearStrike
    \/ Undefine
    \/ Define
    \/ Start
    \/ Sync

Spec == Init /\ [][Next]_vars

\* A call of sync() in a run of successive sync() calls: recorded as in
\* Call, and with whether the call before it was a sync() without state
\* that returned normally with every command succeeding.
CallAgain(arg, c) ==
    /\ tool' = c.tool
    /\ doc' = doc
    /\ last' = [op |-> "sync", arg |-> arg, pre |-> tool,
                env |-> SubSeq(c.env, 1, Len(c.log)),
                log |-> c.log, raised |-> c.raised, ret |-> c.ret,
                chained |-> /\ last.op = "sync"
                            /\ last.arg = <<>>
                            /\ last.raised.kind = "none"
                            /\ \A i \in 1..Len(last.log) : last.log[i].ok]

SyncAgain ==
    \E env \in Envs(MaxCmds), state \in {<<>>} \cup {<<m>> : m \in StateMappings} :
        CallAgain(state, sync(NewCtx(tool, env), state))

InitTwice ==
    /\ tool \in ToolStates
    /\ doc = EmptyDoc
    /\ last = [op |-> "init", arg |-> <<>>, pre |-> tool, env |-> <<>>,
               log |-> <<>>, raised |-> NoError, ret |-> "None",
               chained |-> FALSE]

NextTwice == SyncAgain

SpecTwice == InitTwice /\ [][NextTwice]_vars

NoTool == [persistent |-> FALSE, active |-> FALSE, autostart |-> FALSE]

\* Calls of the converters and of the IPXML constructor; they touch neither
\* the tool nor the network's document.
InitMarshal ==
    /\ tool = NoTool
    /\ doc = EmptyDoc
    /\ last = [op |-> "init", slot |-> "",
               item |-> [type |-> "None", attrs |-> EmptyMap],
               res |-> NoPair(NoError, [type |-> "None", attrs |-> EmptyMap])]

MarshalIn ==
    \E slot \in ListSlots, item \in Items :
        /\ last' = [op |-> "marshal_from", slot |-> slot, item |-> item,
                    res |-> MarshalFrom(slot, item)]
        /\ UNCHANGED <<tool, doc>>

NewIPXML ==
    \E address \in MapValues("address") \cup {DefaultAddress},
       netmask \in MapValues("netmask") \cup {DefaultNetmask},
       ipv6 \in BOOLEAN :
        LET args == [type |-> IF ipv6 THEN "ipv6" ELSE "ipv4",
                     attrs |-> IPXML_init(address, netmask, FALSE)]
        IN  /\ last' = [op |-> "IPXML", slot |-> "", item |-> args,
                        res |-> Pair("ip", "IPXML",
                                     IPXML_init(address, netmask, ipv6),
                                     FALSE, args)]
            /\ UNCHANGED <<tool, doc>>

NextMarshal == MarshalIn \/ NewIPXML

SpecMarshal == InitMarshal /\ [][NextMarshal]_vars

\* The tags of the children a loaded document may have.
ChildTags ==
    {"ip", "portgroup", "route", "interface", "address", "host", "hostname",
     "forwarder", "bridge"}

ClassXPaths(cls) ==
    CASE cls = "NetworkXML" -> {"/", "/forward"}
      [] cls = "IPXML"      -> {"/dhcp"}
      [] OTHER              -> {"/"}

\* A document as loaded from text: up to MaxKids children, of any tags,
\* under one xpath of an object of one of the classes; the children are
\* told apart by a name attribute.
LoadedDoc(cls, xpath, tags) ==
    [EmptyDoc EXCEPT
        !.cls = cls,
        !.elems = [i \in 1..Len(tags) |->
                      [tag |-> tags[i],
                       attrs |-> [k \in {"name"} |-> ToString(i)]]],
        !.kids[xpath] = [i \in 1..Len(tags) |-> i]]

LoadedDocs ==
    {LoadedDoc(cls, xpath, tags) :
        cls \in {"NetworkXML"}, xpath \in ClassXPaths("NetworkXML"),
        tags \in UNION {[1..n -> ChildTags] : n \in 0..MaxKids}}
    \cup
    {LoadedDoc(cls, "/", tags) :
        cls \in {"DNSXML", "HostXML"},
        tags \in UNION {[1..n -> ChildTags] : n \in 0..MaxKids}}
    \cup
    {LoadedDoc("IPXML", "/dhcp", tags) :
        tags \in UNION {[1..n -> ChildTags] : n \in 0..MaxKids}}

InitDoc ==
    /\ tool = NoTool
    /\ doc \in LoadedDocs
    /\ last = [op |-> "init", arg |-> "", ret |-> <<>>, before |-> <<>>,
               raised |-> NoError]

\* object.<slot>: the get of a list slot the object's class declares.
ListGet ==
    \E slot \in ListSlots :
        /\ SlotClass(slot) = doc.cls
        /\ last' = [op |-> "get", arg |-> slot, ret |-> GetList(doc, slot),
                    before |-> <<>>, raised |-> NoError]
        /\ UNCHANGED <<tool, doc>>

\* v = IPXML(ipv6=...): the caller builds an IP block of its own.
NewIP ==
    \E ipv6 \in BOOLEAN :
        /\ doc.cls = "NetworkXML"
        /\ doc.v = 0
        /\ doc' = [doc EXCEPT
                      !.elems = Append(@,
                          [tag |-> "ip",
                           attrs |-> IPXML_init(DefaultAddress,
                                                DefaultNetmask, ipv6)]),
                      !.v = Len(doc.elems) + 1]
        /\ last' = [op |-> "IPXML", arg |-> "", ret |-> <<>>,
                    before |-> <<>>, raised |-> NoError]
        /\ UNCHANGED tool

\* network.add_ip(value), with v or with something that is no IPXML.
AddIp ==
    \E value \in {[type |-> "IPXML", root |-> doc.v],
                   [type |-> "dict", root |-> 0]} :
        LET r == add_ip(doc, value)
        IN  /\ doc.cls = "NetworkXML"
            /\ value.type = "IPXML" => doc.v # 0
            /\ Len(doc.kids["/"]) <= MaxKids
            /\ doc' = [r.doc EXCEPT
                          !.added = @ \/ r.raised.kind = "none"]
            /\ last' = [op |-> "add_ip", arg |-> value.type, ret |-> <<>>,
                        before |-> Children(doc, "/"), raised |-> r.raised]
            /\ UNCHANGED tool

\* v.address = address: a mutation made through v.
SetVAddress ==
    \E address \in MapValues("address") :
        /\ doc.v # 0
        /\ doc' = set_address(doc, address)
        /\ last' = [op |-> "set_address", arg |-> address, ret |-> <<>>,
                    before |-> Children(doc, "/"), raised |-> NoError]
        /\ UNCHANGED tool

NextDoc == ListGet \/ NewIP \/ AddIp \/ SetVAddress

SpecDoc == InitDoc /\ [][NextDoc]_vars

TypeOK ==
    /\ tool \in ToolStates
    /\ last.pre \in ToolStates
    /\ Len(last.log) <= MaxCmds

(***************************************************************************)
(* Properties of the lifecycle facade.                                     *)
(***************************************************************************)

\* The names of the commands a call issued, in order.
Cmds(log) == [i \in 1..Len(log) |-> log[i].cmd]

\* Every command the call issued returned exit status 0.
AllOk(log) == \A i \in 1..Len(log) : log[i].ok

Positions(log, cmd) == {i \in 1..Len(log) : log[i].cmd = cmd}

IsSync == last.op = "sync"

IsDefaultSync == IsSync /\ last.arg = <<>>

IsStateSync == IsSync /\ last.arg # <<>>

NoRaise == last.raised.kind = "none"

\* C1: sync() with no state argument on a network the tool does not know,
\* all of whose commands succeed, issues exactly define, start and
\* autostart (enable), in that order, and nothing else.
C1_SyncDefaultCommands ==
    (IsDefaultSync /\ ~Known(last.pre) /\ AllOk(last.log))
        => /\ Cmds(last.log) = <<"define", "start", "autostart">>
           /\ NoRaise

C1_Witness ==
    /\ IsDefaultSync
    /\ ~Known(last.pre)
    /\ AllOk(last.log)
    /\ Len(last.log) = 3
    /\ tool = [persistent |-> TRUE, active |-> TRUE, autostart |-> TRUE]

\* C2: orbital_nuclear_strike() returns normally from every tool state and
\* whatever the outcome of the stop and undefine commands.
C2_StrikeNeverRaises ==
    last.op = "orbital_nuclear_strike" => NoRaise

C2_Witness ==
    /\ last.op = "orbital_nuclear_strike"
    /\ ~Known(last.pre)
    /\ last.log = <<>>
    /\ NoRaise

\* The position of the first define command of a call (0 if there is none).
FirstDefine(log) ==
    IF Positions(log, "define") = {} THEN 0
    ELSE CHOOSE i \in Positions(log, "define") :
             \A j \in Positions(log, "define") : i <= j

\* The commands of the call up to and including its first define.
Teardown(log) == SubSeq(log, 1, FirstDefine(log))

\* Up to the define, sync() issues at most one stop and one undefine, the
\* stop first.
TeardownOrdered(log) ==
    Cmds(Teardown(log)) \in {<<"define">>,
                             <<"destroy", "define">>,
                             <<"undefine", "define">>,
                             <<"destroy", "undefine", "define">>}

IsUndefineWrite ==
    \/ last.op = "set_defined" /\ last.arg = <<FALSE>>
    \/ last.op = "del_defined"

\* C4: setting defined to false, or deleting it, on a network the tool
\* does not know raises "Cannot undefine non-existant network" and issues
\* no command; on a known network exactly one undefine command is issued.
C4_UndefineNonexistent ==
    IsUndefineWrite
        => IF ~Known(last.pre)
           THEN /\ last.raised =
                       LibvirtXMLError("Cannot undefine non-existant network",
                                       "")
                /\ last.log = <<>>
           ELSE /\ Cmds(last.log) = <<"undefine">>
                /\ NoRaise

C4_Witness ==
    /\ last.op = "set_defined" /\ last.arg = <<FALSE>>
    /\ ~Known(last.pre)
    /\ last.raised.kind = "LibvirtXMLError"

IsActiveWrite == last.op \in {"set_active", "del_active"}

\* C5: every write to active (set true, set false, delete) on a network
\* the tool does not know raises LibvirtXMLError and issues no command.
C5_ActiveWriteUndefined ==
    (IsActiveWrite /\ ~Known(last.pre))
        => /\ last.raised.kind = "LibvirtXMLError"
           /\ last.log = <<>>

IsActivate == last.op = "set_active" /\ last.arg = <<TRUE>>

IsDeactivate ==
    \/ last.op = "set_active" /\ last.arg = <<FALSE>>
    \/ last.op = "del_active"

\* C6: on a network the tool knows, activating an active network and
\* deactivating (or deleting active on) an inactive one issue no command
\* and leave the tool state as it was.
C6_ActiveNoOp ==
    /\ (IsActivate /\ Known(last.pre) /\ last.pre.active)
           => (last.log = <<>> /\ tool = last.pre /\ NoRaise)
    /\ (IsDeactivate /\ Known(last.pre) /\ ~last.pre.active)
           => (last.log = <<>> /\ tool = last.pre /\ NoRaise)

C6_Witness ==
    /\ IsActivate
    /\ last.pre.active
    /\ last.log = <<>>
    /\ tool = last.pre

IsAutostartAccess ==
    last.op \in {"get_autostart", "set_autostart", "del_autostart"}

\* C7: get, set and delete of autostart on a network the tool does not
\* know raise LibvirtXMLError and issue no autostart command.
C7_AutostartNeedsDefined ==
    (IsAutostartAccess /\ ~Known(last.pre))
        => /\ last.raised.kind = "LibvirtXMLError"
           /\ last.log = <<>>
           /\ tool = last.pre

C7_Witness ==
    /\ last.op = "del_autostart"
    /\ ~Known(last.pre)
    /\ last.raised.kind = "LibvirtXMLError"
    /\ last.log = <<>>

\* The outcome of a recorded call is the outcome context c describes.
SameOutcome(c) ==
    /\ last.log = c.log
    /\ last.raised = c.raised
    /\ last.ret = c.ret
    /\ tool = c.tool

\* C8: a write to persistent issues the commands and has the outcome of
\* the same write to defined, from the same tool state and with the same
\* command outcomes; reading persistent of a listed network returns the
\* persistent flag the tool reports for it.
C8_PersistentAlias ==
    /\ last.op = "set_persistent"
           => SameOutcome(set_defined(NewCtx(last.pre, last.env),
                                      last.arg[1]))
    /\ last.op = "del_persistent"
           => SameOutcome(del_defined(NewCtx(last.pre, last.env)))
    /\ (last.op = "get_persistent" /\ Known(last.pre))
           => /\ last.ret = PyBool(last.pre.persistent)
              /\ NoRaise
              /\ last.log = <<>>

C8_Witness ==
    /\ last.op = "get_persistent"
    /\ last.pre.active /\ ~last.pre.persistent
    /\ last.ret = "False"

\* sync(state) issued an undefine command after its define.
UndefinedAgain ==
    \E i \in Positions(last.log, "undefine") : i > FirstDefine(last.log)

\* The tool's flags for the network are the ones the mapping asks for.
FlagsAsRequested(st) ==
    /\ tool.active = st.active
    /\ tool.persistent = st.persistent
    /\ tool.autostart = st.autostart

IsFacadeMethod == last.op \in {"define", "undefine", "create", "start"}

IsDefineWrite == last.op = "set_defined" /\ last.arg = <<TRUE>>

\* The subcommand a lifecycle operation is named after.
MainCmd == IF last.op = "set_defined" THEN "define" ELSE last.op

\* The operation's own subcommand returned a non-zero exit status.
MainCmdFailed ==
    \E i \in Positions(last.log, MainCmd) : ~last.log[i].ok

\* The call raised LibvirtXMLError carrying the stderr of its subcommand.
RaisedWithStderr ==
    /\ last.raised.kind = "LibvirtXMLError"
    /\ last.raised.detail = CmdResult(MainCmd, FALSE).stderr_text

\* C10 as stated: define(), undefine(), create(), start() and the define
\* issued by setting defined to true raise the tool error with the
\* captured stderr when the subcommand returns a non-zero exit status.
C10_FailureRaises ==
    ((IsFacadeMethod \/ IsDefineWrite) /\ MainCmdFailed) => RaisedWithStderr

\* C10 amended: the four methods raise exactly when their subcommand
\* fails, with its stderr; setting defined to true issues the define and
\* returns normally whatever its exit status.
C10_MethodFailureRaises ==
    /\ IsFacadeMethod
           => IF MainCmdFailed THEN RaisedWithStderr ELSE NoRaise
    /\ IsDefineWrite
           => (Cmds(last.log) = <<"define">> /\ NoRaise)

C10_Witness ==
    /\ last.op = "create"
    /\ MainCmdFailed
    /\ RaisedWithStderr
    /\ tool = last.pre

AllOn == [persistent |-> TRUE, active |-> TRUE, autostart |-> TRUE]

\* C11: a sync() without state all of whose commands succeed leaves the
\* network defined, active and autostarted from every tool state, and a
\* second such sync() right after it leaves the tool state as the first
\* one left it.
C11_SyncIdempotent ==
    (IsDefaultSync /\ AllOk(last.log) /\ NoRaise)
        => /\ tool = AllOn
           /\ last.chained => tool = last.pre

C11_Witness ==
    /\ IsDefaultSync /\ AllOk(last.log) /\ NoRaise
    /\ last.chained
    /\ last.pre = AllOn
    /\ Cmds(last.log) = <<"destroy", "undefine", "define", "start",
                          "autostart">>
    /\ tool = AllOn

\* C12: orbital_nuclear_strike() whose stop and undefine commands succeed
\* leaves the network neither active nor known to the tool.
C12_StrikeRemovesAll ==
    (last.op = "orbital_nuclear_strike" /\ AllOk(last.log))
        => (~tool.active /\ ~Known(tool) /\ NoRaise)

C12_Witness ==
    /\ last.op = "orbital_nuclear_strike"
    /\ last.pre.persistent /\ last.pre.active
    /\ Cmds(last.log) = <<"destroy", "undefine">>
    /\ AllOk(last.log)
    /\ ~Known(tool)

IsTransient(t) == t.active /\ ~t.persistent

SyncDefineFailed ==
    /\ IsSync
    /\ ~last.log[FirstDefine(last.log)].ok
    /\ ~Known(last.log[FirstDefine(last.log)].at)

\* C18: if the define issued by sync() fails and the network is not known
\* afterwards, sync() raises, issues no start and no autostart command, and
\* leaves the network undefined and inactive.
C18_SyncDefineFails ==
    SyncDefineFailed
        => /\ last.raised.kind = "LibvirtXMLError"
           /\ Positions(last.log, "start") = {}
           /\ Positions(last.log, "autostart") = {}
           /\ Positions(last.log, "autostart-disable") = {}
           /\ Len(last.log) = FirstDefine(last.log)
           /\ ~tool.persistent /\ ~tool.active

C18_Witness ==
    /\ SyncDefineFailed
    /\ last.pre.persistent
    /\ last.raised.kind = "LibvirtXMLError"
    /\ ~Known(tool)

(***************************************************************************)
(* Properties of the converters and of the documents.                      *)
(***************************************************************************)

IsMarshalIn == last.op = "marshal_from"

Accepted == last.res.raised.kind = "none"

\* The IP block was asked to be ipv6: by the constructor's flag, or by the
\* family key of the mapping handed to the marshal-in of ips.
AskedIpv6 ==
    \/ last.op = "IPXML" /\ last.item.type = "ipv6"
    \/ /\ IsMarshalIn
       /\ "family" \in DOMAIN last.item.attrs
       /\ last.item.attrs["family"] = "ipv6"

IsBuiltIP ==
    \/ last.op = "IPXML"
    \/ IsMarshalIn /\ last.slot = "ips" /\ last.item.type = "dict"

\* C13: an IP block built as ipv6 has no netmask attribute, one built with
\* the family omitted or ipv4 has both address and netmask; for the IPXML
\* constructor and for the marshal-in of the ips list given a mapping.
C13_Ipv6NoNetmask ==
    IsBuiltIP
        => /\ Accepted
           /\ last.res.tag = "ip"
           /\ IF AskedIpv6
              THEN "netmask" \notin DOMAIN last.res.payload.attrs
              ELSE {"address", "netmask"}
                       \subseteq DOMAIN last.res.payload.attrs

C13_Witness ==
    /\ IsMarshalIn /\ last.slot = "ips" /\ last.item.type = "dict"
    /\ AskedIpv6
    /\ "netmask" \in DOMAIN last.item.attrs
    /\ DOMAIN last.res.payload.attrs = {"address", "family"}

\* The class a list slot declares for its items, if it declares one.
SlotSubclass(slot) ==
    CASE slot = "hosts"      -> "DhcpHostXML"
      [] slot = "hostnames"  -> "HostnameXML"
      [] slot = "ips"        -> "IPXML"
      [] slot = "portgroups" -> "PortgroupXML"
      [] slot = "vf_list"    -> "Address"
      [] OTHER               -> "None"

IsDeclaredType ==
    last.item.type \in {"dict", SlotSubclass(last.slot)} \ {"None"}

Rejected ==
    /\ last.res.raised.kind = "LibvirtXMLError"
    /\ last.res.tag = ""
    /\ last.res.payload.type = "None"

\* C14 as stated: a marshal-in converter accepts an item only if it is a
\* mapping or an instance of the slot's declared class, and rejects every
\* other item, a plain string included, with LibvirtXMLError and no pair.
C14_OnlyDeclaredTypes ==
    IsMarshalIn => IF IsDeclaredType THEN Accepted ELSE Rejected

\* C14 amended: as stated, except that the converter of hostnames also
\* accepts a plain string and turns it into a hostname element.
C14_DeclaredTypesOrHostnameString ==
    IsMarshalIn
        => IF IsDeclaredType
              \/ (last.slot = "hostnames" /\ last.item.type = "str")
           THEN Accepted /\ last.res.tag # ""
           ELSE Rejected

C14_Witness ==
    /\ IsMarshalIn
    /\ last.slot = "routes"
    /\ last.item.type = "str"
    /\ Rejected

\* C19: a marshal-in converter leaves a supplied mapping with the keys and
\* values it had, and its payload is not the mapping itself.
C19_ItemUntouched ==
    (IsMarshalIn /\ last.item.type = "dict")
        => /\ last.res.item = last.item.attrs
           /\ ~last.res.payload.shared

\* The tag the marshal-in converter of a slot emits.
FromTag(slot) == MarshalFrom(slot, [type |-> "dict", attrs |-> EmptyMap]).tag

\* The attributes of the children with a given tag, in document order.
RECURSIVE Project(_, _)
Project(children, tag) ==
    IF children = <<>> THEN <<>>
    ELSE IF Head(children).tag = tag
         THEN <<Head(children).attrs>> \o Project(Tail(children), tag)
         ELSE Project(Tail(children), tag)

\* The list slots the class of the document declares.
OwnSlots == {slot \in ListSlots : SlotClass(slot) = doc.cls}

\* C15: a marshal-out converter skips a child iff its tag is not the tag
\* the paired marshal-in emits; the get of a list slot is the projection,
\* in document order, of the children under its xpath onto that tag; two
\* slots on the same xpath never both convert the same child.
C15_OneTagPerConverter ==
    /\ \A slot \in OwnSlots :
           \A i \in 1..Len(Children(doc, SlotXPath(slot))) :
               LET child == Children(doc, SlotXPath(slot))[i]
               IN  MarshalTo(slot, child.tag, child).skip
                       <=> child.tag # FromTag(slot)
    /\ last.op = "get"
           => [i \in 1..Len(last.ret) |-> last.ret[i].attrs]
                  = Project(Children(doc, SlotXPath(last.arg)),
                            FromTag(last.arg))
    /\ \A s1, s2 \in OwnSlots :
           (s1 # s2 /\ SlotXPath(s1) = SlotXPath(s2))
               => \A i \in 1..Len(Children(doc, SlotXPath(s1))) :
                      LET child == Children(doc, SlotXPath(s1))[i]
                      IN  \/ MarshalTo(s1, child.tag, child).skip
                          \/ MarshalTo(s2, child.tag, child).skip

C15_Witness ==
    /\ last.op = "get"
    /\ last.arg = "routes"
    /\ Len(doc.kids["/"]) = 3
    /\ Children(doc, "/")[1].tag = "route"
    /\ Children(doc, "/")[2].tag = "portgroup"
    /\ Children(doc, "/")[3].tag = "ip"
    /\ Len(last.ret) = 1

IsMutationAfterAddIp == last.op = "set_address" /\ doc.added

\* C16 as stated: after add_ip(v) the element is moved, not aliased, so a
\* mutation made through v does not change the network's document.
C16_AddIpMoves ==
    IsMutationAfterAddIp => Children(doc, "/") = last.before

\* C16 amended: after add_ip(v) the root element of v is the same object
\* in both documents: the child of the network's root shows every
\* mutation made through v.
C16_AddIpAliases ==
    IsMutationAfterAddIp
        => /\ \E i \in 1..Len(doc.kids["/"]) :
                  /\ Children(doc, "/")[i] = doc.elems[doc.v]
                  /\ Children(doc, "/")[i].attrs["address"] = last.arg
           /\ \A i \in 1..Len(doc.kids["/"]) :
                  Children(doc, "/")[i] # last.before[i]
                      => /\ doc.kids["/"][i] = doc.v
                         /\ last.before[i].attrs["address"] # last.arg

C16_Witness ==
    /\ IsMutationAfterAddIp
    /\ Children(doc, "/") # last.before
    /\ Len(doc.kids["/"]) = 1

====
